---------------------------- MODULE Spec2Model ----------------------------
(***************************************************************************)
(* MCP Gatekeeper (src/server.py): a policy-enforced tool server.  The     *)
(* model has the server's state (policy file, sandbox files, the           *)
(* pending_actions registry, the audit_entries list), one frame per worker *)
(* thread serving a tool call, and one action per step of each tool: a     *)
(* step is a stretch of a handler with one access to the shared state.     *)
(*                                                                         *)
(*   Spec      two worker threads serve tool calls concurrently            *)
(*   SeqSpec   one thread: the calls are served one at a time              *)
(*   PathSpec  safe_path alone, on every path of at most MaxSegs segments  *)
(*   FaultSpec one thread, with an unparseable policy.json and a path that *)
(*             names a directory among the inputs                          *)
(*   PolicySpec get_tool_policy alone, on every tool name and policy file  *)
(*   OneFileSpec one thread, every tool, on one file                       *)
(*   IdSpec    one thread, the action ids drawn from all ids               *)
(*   ClockSpec two threads, audit() in two steps: timestamp, then append   *)
(*   SanitizeSpec _sanitize_args alone, on argument maps                   *)
(*   LongSpec  one thread, write_file with a content beyond the limit      *)
(*   ExecSpec  _exec alone, on every tool name                             *)
(*   FaultLiveSpec FaultSpec with a call running on to its return          *)
(*                                                                         *)
(* The handlers hold no lock, so in Spec the steps of two calls interleave *)
(* freely.  Symbolic links and the audit entries' own ids are left out,    *)
(* and so are timestamps except in ClockSpec; action ids (uuid4) are taken *)
(* to be fresh, except in IdSpec.                                          *)
(***************************************************************************)
EXTENDS Integers, Sequences, FiniteSets, TLC

VARIABLES
    policyFile,       \* policy.json: [exists, table]
    fs,               \* the file system: resolved absolute path -> content
    pending_actions,  \* action id -> PendingAction record
    audit_entries,    \* the audit list, in append order
    pc,               \* thread -> position in the tool call it serves
    fr,               \* thread -> frame (arguments, locals, result) of that call
    execs,            \* history: how often _exec ran, per action id (0: a direct call)
    accessed,         \* history: the resolved paths a file operation was applied to
    calls,            \* history: tool calls started so far
    probe             \* input and outcome of a pure-function check; the clock

vars == <<policyFile, fs, pending_actions, audit_entries, pc, fr, execs, accessed,
          calls, probe>>

(***************************************************************************)
(* Bounds                                                                  *)
(***************************************************************************)
MaxCalls == 3      \* tool calls per behaviour
MaxSegs == 3       \* segments of a caller-supplied path in PathSpec
MaxTicks == 2      \* ticks of the wall clock in ClockSpec

Threads == {1, 2}

(***************************************************************************)
(* Paths.  A path is a sequence of segments; a segment's text is a         *)
(* sequence of characters so that str(path) and str.startswith are         *)
(* computed as Python computes them.                                       *)
(***************************************************************************)
Up == ".."

Chars(seg) ==
    CASE seg = "srv"      -> <<"s", "r", "v">>
      [] seg = "sandbox"  -> <<"s", "a", "n", "d", "b", "o", "x">>
      [] seg = "sandbox2" -> <<"s", "a", "n", "d", "b", "o", "x", "2">>
      [] seg = "etc"      -> <<"e", "t", "c">>
      [] seg = "a.txt"    -> <<"a", ".", "t", "x", "t">>
      [] OTHER            -> <<"?">>

\* BASE_DIR / "sandbox", already resolved
SANDBOX_DIR == <<"srv", "sandbox">>

\* pathlib's SANDBOX_DIR / user_path: an absolute right operand replaces the left
Join(base, user) == IF user.abs THEN user.segs ELSE base \o user.segs

\* Path.resolve() on a path without symlinks: ".." drops the last segment,
\* and stays at the root when there is none
RECURSIVE ResolveFrom(_, _)
ResolveFrom(done, rest) ==
    IF rest = <<>> THEN done
    ELSE IF Head(rest) = Up
         THEN ResolveFrom(IF done = <<>> THEN <<>> ELSE SubSeq(done, 1, Len(done) - 1),
                          Tail(rest))
         ELSE ResolveFrom(Append(done, Head(rest)), Tail(rest))

Resolve(segs) == ResolveFrom(<<>>, segs)

\* str(path) of an absolute path
RECURSIVE StrFrom(_)
StrFrom(segs) ==
    IF segs = <<>> THEN <<>>
    ELSE <<"/">> \o Chars(Head(segs)) \o StrFrom(Tail(segs))

Str(segs) == IF segs = <<>> THEN <<"/">> ELSE StrFrom(segs)

\* str.startswith
StartsWith(s, prefix) ==
    /\ Len(prefix) <= Len(s)
    /\ SubSeq(s, 1, Len(prefix)) = prefix

\* safe_path: ok = FALSE stands for the ValueError it raises
safe_path(user_path) ==
    LET target == Resolve(Join(SANDBOX_DIR, user_path))
    IN  [ok |-> StartsWith(Str(target), Str(Resolve(SANDBOX_DIR))),
         target |-> target]

\* the normalized path is the sandbox root or lies below it
IsContained(target) ==
    /\ Len(target) >= Len(SANDBOX_DIR)
    /\ SubSeq(target, 1, Len(SANDBOX_DIR)) = SANDBOX_DIR

(***************************************************************************)
(* Policy engine                                                           *)
(***************************************************************************)
Tools == {"read_file", "write_file", "delete_file", "run_shell"}

\* the tools _exec executes
FileTools == {"read_file", "write_file", "delete_file"}

Entry(risk, action, approval) ==
    [risk_level |-> risk, default_action |-> action, allow_approval |-> approval]

DEFAULT_POLICY ==
    [tool \in Tools |->
        CASE tool = "read_file"   -> Entry("SAFE", "allow", FALSE)
          [] tool = "write_file"  -> Entry("SENSITIVE", "require_approval", TRUE)
          [] tool = "delete_file" -> Entry("DANGEROUS", "block", TRUE)
          [] tool = "run_shell"   -> Entry("DANGEROUS", "block", FALSE)]

\* the entry get_tool_policy gives a tool the policy does not list
FailClosed == Entry("DANGEROUS", "block", FALSE)

NoFile == [exists |-> FALSE, table |-> DEFAULT_POLICY]

\* a policy.json that tries to allow everything, run_shell included
AllowAllFile == [exists |-> TRUE, table |-> [tool \in Tools |-> Entry("SAFE", "allow", TRUE)]]

\* a policy.json that blocks everything and permits no approval
LockedFile ==
    [exists |-> TRUE, table |-> [tool \in Tools |-> Entry("DANGEROUS", "block", FALSE)]]

\* the contents policy.json takes in Spec and SeqSpec
PolicyFiles == {NoFile, AllowAllFile, LockedFile}

\* a policy.json that is not JSON
Garbage == [text |-> "not json"]
InvalidFile == [exists |-> TRUE, table |-> Garbage]

\* what json.load raises on it: json.JSONDecodeError, a subclass of ValueError
JSONDecodeError == [raised |-> "JSONDecodeError"]

Raises(value) == "raised" \in DOMAIN value

\* load_policy: the parsed file when there is one, and no fallback when it
\* does not parse
load_policy(file) ==
    IF file.exists
    THEN IF file.table = Garbage THEN JSONDecodeError ELSE file.table
    ELSE DEFAULT_POLICY

\* the mutant: a tool the policy does not list gets the entry of read_file
GetToolPolicyFailOpen(file, tool_name) ==
    LET policy == load_policy(file)
    IN  IF Raises(policy) THEN policy
        ELSE IF tool_name \in DOMAIN policy THEN policy[tool_name]
             ELSE DEFAULT_POLICY["read_file"]

get_tool_policy(file, tool_name) ==
    LET policy == load_policy(file)
    IN  IF Raises(policy) THEN policy
        ELSE IF tool_name \in DOMAIN policy THEN policy[tool_name] ELSE FailClosed

(***************************************************************************)
(* Files and direct execution                                              *)
(***************************************************************************)
Absent == "<absent>"
Dir == "<dir>"
Contents == {"hi", "hello"}
Commands == {"ls"}

\* len(s)
StrLen(s) == Len(s)

NoPath == [abs |-> FALSE, segs |-> <<"-">>]
InPath == [abs |-> FALSE, segs |-> <<"a.txt">>]
SiblingPath == [abs |-> FALSE, segs |-> <<Up, "sandbox2", "a.txt">>]
OutPath == [abs |-> FALSE, segs |-> <<Up, Up, "etc">>]
\* "." (or ""): the sandbox root itself
RootPath == [abs |-> FALSE, segs |-> <<>>]

\* the paths callers pass in Spec
UserPaths == {InPath, SiblingPath, OutPath}

FsPaths == {safe_path(u).target : u \in UserPaths}

\* the file system at start: the sandbox root is a directory (mkdir at import),
\* and no file exists
Places == FsPaths \cup {SANDBOX_DIR}
EmptySandbox == [p \in Places |-> IF p = SANDBOX_DIR THEN Dir ELSE Absent]

\* the (path, content) pairs callers pass to write_file in Spec
WriteInputs ==
    {<<InPath, "hi">>, <<InPath, "hello">>, <<SiblingPath, "hi">>, <<OutPath, "hi">>}

Out(kind, path, n, text) == [kind |-> kind, path |-> path, n |-> n, text |-> text]
NoOut == Out("none", NoPath, 0, "")

\* the mutant: _exec reports success and leaves the file system as it was
ExecDropsWrite(tool, args, files) ==
    [files |-> files, out |-> Out("OK: wrote", args.path, 0, ""), raised |-> "none",
     touched |-> {}]

\* the mutant: _exec runs run_shell, which removes a.txt
ExecRunsShell(tool, args, files) ==
    IF tool = "run_shell"
    THEN [files |-> [files EXCEPT ![safe_path(InPath).target] = Absent],
          out |-> Out("OK: ran", NoPath, 0, ""), raised |-> "none",
          touched |-> {safe_path(InPath).target}]
    ELSE [files |-> files, out |-> Out("cannot execute", NoPath, 0, ""),
          raised |-> "none", touched |-> {}]

\* _exec(tool, args) on file system files: the file system after it, what it
\* returns, whether it raised (safe_path's ValueError, or the OSError of
\* read_text, write_text and unlink on a directory), and the path it touched
_exec(tool, args, files) ==
    LET p == safe_path(args.path)
        raise == [files |-> files, out |-> NoOut, raised |-> "ValueError", touched |-> {}]
        oserror == [files |-> files, out |-> NoOut, raised |-> "OSError",
                    touched |-> {p.target}]
        ret(f, o) == [files |-> f, out |-> o, raised |-> "none", touched |-> {p.target}]
    IN  CASE tool = "read_file" ->
               IF ~p.ok THEN raise
               ELSE IF files[p.target] = Absent
                    THEN ret(files, Out("file not found", args.path, 0, ""))
                    ELSE IF files[p.target] = Dir THEN oserror
                    ELSE ret(files, Out("content", args.path, 0, files[p.target]))
          [] tool = "write_file" ->
               IF ~p.ok THEN raise
               ELSE IF files[p.target] = Dir THEN oserror
               ELSE ret([files EXCEPT ![p.target] = args.content],
                        Out("OK: wrote", args.path, StrLen(args.content), ""))
          [] tool = "delete_file" ->
               IF ~p.ok THEN raise
               ELSE IF files[p.target] = Absent
                    THEN ret(files, Out("file not found", args.path, 0, ""))
                    ELSE IF files[p.target] = Dir THEN oserror
                    ELSE ret([files EXCEPT ![p.target] = Absent],
                             Out("OK: deleted", args.path, 0, ""))
          [] OTHER -> [files |-> files, out |-> Out("cannot execute", NoPath, 0, ""),
                       raised |-> "none", touched |-> {}]

(***************************************************************************)
(* Audit log helper, effect descriptions                                   *)
(***************************************************************************)
SanitizeLimit == 200

\* the arguments whose values are strings of characters in the model; a path
\* is a str too, kept as its segments, and shorter than the limit
StrKeys == {"content", "command"}

\* f"...({len(v)} bytes)"
Suffix(v) == "...(" \o ToString(StrLen(v)) \o " bytes)"

\* the mutant: the long value is cut and gets no suffix
SanitizeNoSuffix(args) ==
    [k \in DOMAIN args |->
        IF k \in StrKeys /\ StrLen(args[k]) > SanitizeLimit
        THEN SubSeq(args[k], 1, SanitizeLimit)
        ELSE args[k]]

\* _sanitize_args: a string value longer than the limit becomes
\* v[:200] + f"...({len(v)} bytes)", any other value is copied
_sanitize_args(args) ==
    [k \in DOMAIN args |->
        IF k \in StrKeys /\ StrLen(args[k]) > SanitizeLimit
        THEN SubSeq(args[k], 1, SanitizeLimit) \o Suffix(args[k])
        ELSE args[k]]

\* the entry audit() builds (its id and timestamp left out)
AuditEntry(tool, args, decision, risk, detail) ==
    [tool |-> tool, args |-> _sanitize_args(args), risk |-> risk,
     decision |-> decision, detail |-> detail]

describe_effect(tool, args) ==
    CASE tool = "read_file"   -> [verb |-> "Read file", path |-> args.path]
      [] tool = "write_file"  -> [verb |-> "Write", n |-> StrLen(args.content),
                                  path |-> args.path]
      [] tool = "delete_file" -> [verb |-> "PERMANENTLY delete", path |-> args.path]
      [] tool = "run_shell"   -> [verb |-> "Execute shell", command |-> args.command]
      [] OTHER                -> [verb |-> "Unknown"]

(***************************************************************************)
(* State                                                                   *)
(***************************************************************************)
Ids == 1..MaxCalls

\* the ids callers pass to approve and deny: those of the registry, and one
\* that is not in it
KnownIds == DOMAIN pending_actions \cup {Cardinality(DOMAIN pending_actions) + 1}

\* uuid4().hex[:8], taken to be fresh: the ids are opaque, so the first
\* unused one stands for any of them
NewId == Cardinality(DOMAIN pending_actions) + 1

NoEntry == [tool |-> "none"]
NoResult == [kind |-> "none"]

NoPolicy == Entry("none", "none", FALSE)

NoFrame ==
    [op |-> "none", args |-> [path |-> NoPath], aid |-> 0, policy |-> NoPolicy,
     risk |-> "none", out |-> NoOut, raised |-> "none", entry |-> NoEntry, result |-> NoResult]

Frame(op, args) == [NoFrame EXCEPT !.op = op, !.args = args]

Init ==
    /\ policyFile \in PolicyFiles
    /\ fs = EmptySandbox
    /\ pending_actions = <<>>
    /\ audit_entries = <<>>
    /\ pc = [t \in Threads |-> "idle"]
    /\ fr = [t \in Threads |-> NoFrame]
    /\ execs = [i \in {0} \cup Ids |-> 0]
    /\ accessed = {}
    /\ calls = 0
    /\ probe = [phase |-> "off"]

\* a worker thread takes the next tool call.  The workers are interchangeable,
\* so a call goes to worker 2 only while worker 1 is serving one.
Free(t) == pc[t] \in {"idle", "done"}

CanCall(t) ==
    /\ Free(t)
    /\ calls < MaxCalls
    /\ \A u \in Threads : u < t => ~Free(u)

TraversalEntry(tool, path) ==
    AuditEntry(tool, [path |-> path], "BLOCKED", "DANGEROUS",
               [msg |-> "Path traversal blocked", path |-> path])

TraversalResult(path) ==
    [kind |-> "BLOCKED", why |-> "Path traversal blocked", path |-> path]

\* the except ValueError clause catching an exception that is not safe_path's:
\* the same BLOCKED / DANGEROUS entry, with that exception's text
RaisedEntry(tool, path, exception) ==
    AuditEntry(tool, [path |-> path], "BLOCKED", "DANGEROUS", [msg |-> exception])

RaisedResult(exception) == [kind |-> "BLOCKED", why |-> exception]

(***************************************************************************)
(* File tools                                                              *)
(***************************************************************************)
\* what the caller gets when an exception leaves the handler
EscapedResult(exception) == [kind |-> "raised", why |-> exception]

\* read_file: the containment check, then exists() and read_text().  The
\* handler catches ValueError only: read_text's OSError on a directory leaves
\* it before any audit() call.
ReadFile(t, path) ==
    /\ CanCall(t)
    /\ calls' = calls + 1
    /\ LET p == safe_path(path)
           f == Frame("read_file", [path |-> path])
       IN  IF ~p.ok
           THEN /\ fr' = [fr EXCEPT ![t] = [f EXCEPT
                            !.raised = "ValueError",
                            !.entry = TraversalEntry("read_file", path),
                            !.result = TraversalResult(path)]]
                /\ accessed' = accessed
                /\ pc' = [pc EXCEPT ![t] = "audit"]
           ELSE /\ accessed' = accessed \cup {p.target}
                /\ IF fs[p.target] = Absent
                   THEN /\ fr' = [fr EXCEPT ![t] = [f EXCEPT
                               !.entry = AuditEntry("read_file", [path |-> path], "ERROR",
                                                    "SAFE", [msg |-> "not found"]),
                               !.result = [kind |-> "file not found", path |-> path]]]
                        /\ pc' = [pc EXCEPT ![t] = "audit"]
                   ELSE IF fs[p.target] = Dir
                   THEN /\ fr' = [fr EXCEPT ![t] = [f EXCEPT
                               !.raised = "OSError",
                               !.result = EscapedResult("OSError")]]
                        /\ pc' = [pc EXCEPT ![t] = "done"]
                   ELSE /\ fr' = [fr EXCEPT ![t] = [f EXCEPT
                               !.entry = AuditEntry("read_file", [path |-> path], "EXECUTED",
                                                    "SAFE", [bytes |-> StrLen(fs[p.target])]),
                               !.result = [kind |-> "content", text |-> fs[p.target]]]]
                        /\ pc' = [pc EXCEPT ![t] = "audit"]
    /\ UNCHANGED <<policyFile, fs, pending_actions, audit_entries, execs, probe>>

\* the mutant: write_file executes on require_approval as it does on allow
WriteDecisionApprovalExecutes(policy) ==
    IF policy.default_action \in {"allow", "require_approval"} THEN "exec"
    ELSE IF policy.allow_approval THEN "create"
         ELSE "blocked"

\* the mutant: write_file looks at the registry before the policy entry, and
\* refuses while the registry holds an action
WriteDecisionByRegistry(policy) ==
    IF DOMAIN pending_actions # {} THEN "blocked"
    ELSE IF policy.default_action = "allow" THEN "exec"
    ELSE IF policy.allow_approval THEN "create"
         ELSE "blocked"

\* write_file's branch on the policy entry
WriteDecision(policy) ==
    IF policy.default_action = "allow" THEN "exec"
    ELSE IF policy.default_action \in {"require_approval", "block"} /\ policy.allow_approval
         THEN "create"
         ELSE "blocked"

\* the mutant: delete_file refuses on block whatever allow_approval says
DeleteDecisionBlockRefuses(policy) ==
    IF policy.default_action = "allow" THEN "exec"
    ELSE IF policy.default_action = "require_approval" /\ policy.allow_approval
         THEN "create"
         ELSE "blocked"

\* delete_file's branch on the policy entry
DeleteDecision(policy) ==
    IF policy.default_action = "allow" THEN "exec"
    ELSE IF policy.allow_approval THEN "create"
         ELSE "blocked"

\* the mutant: no early safe_path(path), the policy branch comes first
MediateNoEarlyCheck(t, tool, args, decision, policy, why) ==
    /\ CanCall(t)
    /\ calls' = calls + 1
    /\ LET f == Frame(tool, args)
       IN  IF decision = "blocked"
           THEN /\ fr' = [fr EXCEPT ![t] = [f EXCEPT
                            !.policy = policy,
                            !.risk = policy.risk_level,
                            !.entry = AuditEntry(tool, [path |-> args.path], "BLOCKED",
                                                 policy.risk_level, [msg |-> why]),
                            !.result = [kind |-> "BLOCKED", why |-> "policy", tool |-> tool]]]
                /\ pc' = [pc EXCEPT ![t] = "audit"]
           ELSE /\ fr' = [fr EXCEPT ![t] = [f EXCEPT !.policy = policy,
                                                       !.risk = policy.risk_level]]
                /\ pc' = [pc EXCEPT ![t] = decision]
    /\ UNCHANGED <<policyFile, fs, pending_actions, audit_entries, execs, accessed, probe>>

\* write_file and delete_file up to the branch: the containment check, the
\* policy lookup, and the blocked branch's entry
Mediate(t, tool, args, decision, policy, why) ==
    /\ CanCall(t)
    /\ calls' = calls + 1
    /\ LET p == safe_path(args.path)
           f == Frame(tool, args)
       IN  IF ~p.ok
           THEN /\ fr' = [fr EXCEPT ![t] = [f EXCEPT
                            !.raised = "ValueError",
                            !.entry = TraversalEntry(tool, args.path),
                            !.result = TraversalResult(args.path)]]
                /\ pc' = [pc EXCEPT ![t] = "audit"]
           ELSE IF decision = "raised"
                THEN /\ fr' = [fr EXCEPT ![t] = [f EXCEPT
                            !.raised = policy.raised,
                            !.entry = RaisedEntry(tool, args.path, policy.raised),
                            !.result = RaisedResult(policy.raised)]]
                     /\ pc' = [pc EXCEPT ![t] = "audit"]
           ELSE IF decision = "blocked"
                THEN /\ fr' = [fr EXCEPT ![t] = [f EXCEPT
                            !.policy = policy,
                            !.risk = policy.risk_level,
                            !.entry = AuditEntry(tool, [path |-> args.path], "BLOCKED",
                                                 policy.risk_level, [msg |-> why]),
                            !.result = [kind |-> "BLOCKED", why |-> "policy", tool |-> tool]]]
                     /\ pc' = [pc EXCEPT ![t] = "audit"]
                ELSE /\ fr' = [fr EXCEPT ![t] = [f EXCEPT !.policy = policy,
                                                            !.risk = policy.risk_level]]
                     /\ pc' = [pc EXCEPT ![t] = decision]
    /\ UNCHANGED <<policyFile, fs, pending_actions, audit_entries, execs, accessed, probe>>

\* write_file: get_tool_policy may raise json.load's error, else the branch
WriteFile(t, path, content) ==
    LET policy == get_tool_policy(policyFile, "write_file")
    IN  Mediate(t, "write_file", [path |-> path, content |-> content],
                IF Raises(policy) THEN "raised" ELSE WriteDecision(policy),
                policy, "policy: no approval allowed")

DeleteFile(t, path) ==
    LET policy == get_tool_policy(policyFile, "delete_file")
    IN  Mediate(t, "delete_file", [path |-> path],
                IF Raises(policy) THEN "raised" ELSE DeleteDecision(policy),
                policy, "permanently blocked")

\* the arguments write_file and delete_file give audit() after a direct _exec
ExecutedArgs(tool, args) ==
    IF tool = "write_file"
    THEN [path |-> args.path, content_length |-> StrLen(args.content)]
    ELSE [path |-> args.path]

\* the allow branch: _exec, then the EXECUTED entry; an OSError of _exec is not
\* caught and leaves the handler before audit()
ExecDirect(t) ==
    /\ pc[t] = "exec"
    /\ LET f == fr[t]
           r == _exec(f.op, f.args, fs)
       IN  /\ fs' = r.files
           /\ execs' = [execs EXCEPT ![0] = @ + 1]
           /\ accessed' = accessed \cup r.touched
           /\ IF r.raised = "ValueError"
              THEN /\ fr' = [fr EXCEPT ![t] = [f EXCEPT
                               !.raised = "ValueError",
                               !.entry = TraversalEntry(f.op, f.args.path),
                               !.result = TraversalResult(f.args.path)]]
                   /\ pc' = [pc EXCEPT ![t] = "audit"]
              ELSE IF r.raised = "OSError"
              THEN /\ fr' = [fr EXCEPT ![t] = [f EXCEPT
                               !.raised = "OSError",
                               !.result = EscapedResult("OSError")]]
                   /\ pc' = [pc EXCEPT ![t] = "done"]
              ELSE /\ fr' = [fr EXCEPT ![t] = [f EXCEPT
                               !.out = r.out,
                               !.entry = AuditEntry(f.op, ExecutedArgs(f.op, f.args),
                                                    "EXECUTED", f.risk, [msg |-> ""]),
                               !.result = r.out]]
                   /\ pc' = [pc EXCEPT ![t] = "audit"]
    /\ UNCHANGED <<policyFile, pending_actions, audit_entries, calls, probe>>

\* the mutant: the registry gets the sanitized copy of the arguments
CreatePendingSanitized(t, aid) ==
    /\ pc[t] = "create"
    /\ LET f == fr[t]
       IN  /\ pending_actions' = (aid :>
                    [id |-> aid, tool_name |-> f.op, args |-> _sanitize_args(f.args),
                     risk_level |-> f.risk,
                     proposed_effect |-> describe_effect(f.op, f.args),
                     status |-> "PENDING"]) @@ pending_actions
           /\ fr' = [fr EXCEPT ![t] = [f EXCEPT
                        !.aid = aid,
                        !.entry = AuditEntry(f.op, f.args, "PENDING_APPROVAL", f.risk,
                                             [action_id |-> aid]),
                        !.result = [kind |-> "APPROVAL_REQUIRED", action_id |-> aid,
                                    risk_level |-> f.risk,
                                    proposed_effect |-> describe_effect(f.op, f.args)]]]
    /\ pc' = [pc EXCEPT ![t] = "audit"]
    /\ UNCHANGED <<policyFile, fs, audit_entries, execs, accessed, calls, probe>>

\* _create_pending up to its audit() call, uuid4().hex[:8] having given aid:
\* pending_actions[aid] = {...} replaces the entry of a key that is there
CreatePendingAs(t, aid) ==
    /\ pc[t] = "create"
    /\ LET f == fr[t]
       IN  /\ pending_actions' = (aid :>
                    [id |-> aid, tool_name |-> f.op, args |-> f.args,
                     risk_level |-> f.risk,
                     proposed_effect |-> describe_effect(f.op, f.args),
                     status |-> "PENDING"]) @@ pending_actions
           /\ fr' = [fr EXCEPT ![t] = [f EXCEPT
                        !.aid = aid,
                        !.entry = AuditEntry(f.op, f.args, "PENDING_APPROVAL", f.risk,
                                             [action_id |-> aid]),
                        !.result = [kind |-> "APPROVAL_REQUIRED", action_id |-> aid,
                                    risk_level |-> f.risk,
                                    proposed_effect |-> describe_effect(f.op, f.args)]]]
    /\ pc' = [pc EXCEPT ![t] = "audit"]
    /\ UNCHANGED <<policyFile, fs, audit_entries, execs, accessed, calls, probe>>

\* _create_pending with an id no entry has
CreatePending(t) == CreatePendingAs(t, NewId)

\* the mutant: audit() puts the new entry in front of the list
AppendAuditInFront(t) ==
    /\ pc[t] = "audit"
    /\ audit_entries' = <<fr[t].entry>> \o audit_entries
    /\ pc' = [pc EXCEPT ![t] = "done"]
    /\ UNCHANGED <<policyFile, fs, pending_actions, fr, execs, accessed, calls, probe>>

\* audit()'s append, and the tool's return
AppendAudit(t) ==
    /\ pc[t] = "audit"
    /\ audit_entries' = Append(audit_entries, fr[t].entry)
    /\ pc' = [pc EXCEPT ![t] = "done"]
    /\ UNCHANGED <<policyFile, fs, pending_actions, fr, execs, accessed, calls, probe>>

\* the mutant: run_shell follows the policy entry as delete_file does
RunShellByPolicy(t, command) ==
    LET policy == get_tool_policy(policyFile, "run_shell")
    IN  Mediate(t, "run_shell", [path |-> NoPath, command |-> command],
                DeleteDecision(policy), policy, "permanently blocked")

\* run_shell: blocked whatever the policy says
RunShell(t, command) ==
    /\ CanCall(t)
    /\ calls' = calls + 1
    /\ audit_entries' = Append(audit_entries,
            AuditEntry("run_shell", [command |-> command], "BLOCKED", "DANGEROUS",
                       [msg |-> "Shell execution permanently forbidden"]))
    /\ fr' = [fr EXCEPT ![t] = [Frame("run_shell", [command |-> command]) EXCEPT
                !.result = [kind |-> "BLOCKED", risk_level |-> "DANGEROUS",
                            why |-> "run_shell is PERMANENTLY blocked"]]]
    /\ pc' = [pc EXCEPT ![t] = "done"]
    /\ UNCHANGED <<policyFile, fs, pending_actions, execs, accessed, probe>>

(***************************************************************************)
(* Approval workflow tools                                                 *)
(***************************************************************************)
NotFoundResult(aid) == [kind |-> "not found", action_id |-> aid]
AlreadyResult(aid, status) == [kind |-> "already", action_id |-> aid, status |-> status]

\* the mutant: no status check, any action in the registry is resolved again
ResolutionNoCheck(t, op, aid, next) ==
    /\ CanCall(t)
    /\ calls' = calls + 1
    /\ LET f == [Frame(op, [action_id |-> aid]) EXCEPT !.aid = aid]
       IN  IF aid \notin DOMAIN pending_actions
           THEN /\ fr' = [fr EXCEPT ![t] = [f EXCEPT !.result = NotFoundResult(aid)]]
                /\ pc' = [pc EXCEPT ![t] = "done"]
           ELSE /\ fr' = [fr EXCEPT ![t] = f]
                /\ pc' = [pc EXCEPT ![t] = next]
    /\ UNCHANGED <<policyFile, fs, pending_actions, audit_entries, execs, accessed, probe>>

\* the mutant: an id the registry does not hold is audited as an error
ResolutionAuditsUnknown(t, op, aid, next) ==
    /\ CanCall(t)
    /\ calls' = calls + 1
    /\ LET f == [Frame(op, [action_id |-> aid]) EXCEPT !.aid = aid]
       IN  IF aid \notin DOMAIN pending_actions
           THEN /\ fr' = [fr EXCEPT ![t] = [f EXCEPT
                            !.entry = AuditEntry(op, [action_id |-> aid], "ERROR",
                                                 "SAFE", [msg |-> "not found"]),
                            !.result = NotFoundResult(aid)]]
                /\ pc' = [pc EXCEPT ![t] = "audit"]
           ELSE IF pending_actions[aid].status # "PENDING"
                THEN /\ fr' = [fr EXCEPT ![t] = [f EXCEPT
                                !.result = AlreadyResult(aid, pending_actions[aid].status)]]
                     /\ pc' = [pc EXCEPT ![t] = "done"]
                ELSE /\ fr' = [fr EXCEPT ![t] = f]
                     /\ pc' = [pc EXCEPT ![t] = next]
    /\ UNCHANGED <<policyFile, fs, pending_actions, audit_entries, execs, accessed, probe>>

\* approve and deny up to the status check: the lookup and the check
Resolution(t, op, aid, next) ==
    /\ CanCall(t)
    /\ calls' = calls + 1
    /\ LET f == [Frame(op, [action_id |-> aid]) EXCEPT !.aid = aid]
       IN  IF aid \notin DOMAIN pending_actions
           THEN /\ fr' = [fr EXCEPT ![t] = [f EXCEPT !.result = NotFoundResult(aid)]]
                /\ pc' = [pc EXCEPT ![t] = "done"]
           ELSE IF pending_actions[aid].status # "PENDING"
                THEN /\ fr' = [fr EXCEPT ![t] = [f EXCEPT
                                !.result = AlreadyResult(aid, pending_actions[aid].status)]]
                     /\ pc' = [pc EXCEPT ![t] = "done"]
                ELSE /\ fr' = [fr EXCEPT ![t] = f]
                     /\ pc' = [pc EXCEPT ![t] = next]
    /\ UNCHANGED <<policyFile, fs, pending_actions, audit_entries, execs, accessed, probe>>

Approve(t, aid) == Resolution(t, "approve", aid, "approve_exec")

\* approve: _exec on the stored tool and arguments
ApproveExec(t) ==
    /\ pc[t] = "approve_exec"
    /\ LET f == fr[t]
           action == pending_actions[f.aid]
           r == _exec(action.tool_name, action.args, fs)
       IN  /\ fs' = r.files
           /\ execs' = [execs EXCEPT ![f.aid] = @ + 1]
           /\ accessed' = accessed \cup r.touched
           /\ fr' = [fr EXCEPT ![t] = [f EXCEPT !.out = r.out, !.raised = r.raised]]
    /\ pc' = [pc EXCEPT ![t] = "approve_set"]
    /\ UNCHANGED <<policyFile, pending_actions, audit_entries, calls, probe>>

\* the mutant: no except clause, an exception of _exec leaves approve with the
\* action PENDING and no audit entry
ApproveSetNoExcept(t) ==
    /\ pc[t] = "approve_set"
    /\ LET f == fr[t]
           action == pending_actions[f.aid]
       IN  IF f.raised = "none"
           THEN /\ pending_actions' = [pending_actions EXCEPT ![f.aid].status = "APPROVED"]
                /\ fr' = [fr EXCEPT ![t] = [f EXCEPT
                            !.entry = AuditEntry(action.tool_name, action.args,
                                                 "APPROVED_EXECUTED", action.risk_level,
                                                 [aid |-> f.aid, result |-> f.out]),
                            !.result = [kind |-> "APPROVED_AND_EXECUTED",
                                        action_id |-> f.aid, result |-> f.out]]]
                /\ pc' = [pc EXCEPT ![t] = "audit"]
           ELSE /\ pending_actions' = pending_actions
                /\ fr' = [fr EXCEPT ![t] = [f EXCEPT !.result = EscapedResult(f.raised)]]
                /\ pc' = [pc EXCEPT ![t] = "done"]
    /\ UNCHANGED <<policyFile, fs, audit_entries, execs, accessed, calls, probe>>

\* approve: the status assignment, in the try body or in the except clause
ApproveSet(t) ==
    /\ pc[t] = "approve_set"
    /\ LET f == fr[t]
           action == pending_actions[f.aid]
       IN  IF f.raised = "none"
           THEN /\ pending_actions' = [pending_actions EXCEPT ![f.aid].status = "APPROVED"]
                /\ fr' = [fr EXCEPT ![t] = [f EXCEPT
                            !.entry = AuditEntry(action.tool_name, action.args,
                                                 "APPROVED_EXECUTED", action.risk_level,
                                                 [aid |-> f.aid, result |-> f.out]),
                            !.result = [kind |-> "APPROVED_AND_EXECUTED",
                                        action_id |-> f.aid, result |-> f.out]]]
           ELSE /\ pending_actions' = [pending_actions EXCEPT ![f.aid].status = "ERROR"]
                /\ fr' = [fr EXCEPT ![t] = [f EXCEPT
                            !.entry = AuditEntry(action.tool_name, action.args, "ERROR",
                                                 action.risk_level, [msg |-> f.raised]),
                            !.result = [kind |-> "Execution error", why |-> f.raised]]]
    /\ pc' = [pc EXCEPT ![t] = "audit"]
    /\ UNCHANGED <<policyFile, fs, audit_entries, execs, accessed, calls, probe>>

Deny(t, aid) == Resolution(t, "deny", aid, "deny_set")

\* the mutant: deny runs _exec on the stored action before it sets DENIED
DenySetExecutes(t) ==
    /\ pc[t] = "deny_set"
    /\ LET f == fr[t]
           action == pending_actions[f.aid]
           r == _exec(action.tool_name, action.args, fs)
       IN  /\ fs' = r.files
           /\ execs' = [execs EXCEPT ![f.aid] = @ + 1]
           /\ pending_actions' = [pending_actions EXCEPT ![f.aid].status = "DENIED"]
           /\ fr' = [fr EXCEPT ![t] = [f EXCEPT
                        !.entry = AuditEntry(action.tool_name, action.args, "DENIED",
                                             action.risk_level,
                                             [aid |-> f.aid, msg |-> "denied by user"]),
                        !.result = [kind |-> "DENIED", action_id |-> f.aid,
                                    tool |-> action.tool_name]]]
    /\ pc' = [pc EXCEPT ![t] = "audit"]
    /\ UNCHANGED <<policyFile, audit_entries, accessed, calls, probe>>

\* the mutant: deny audits with the risk level the policy gives the tool now
DenySetCurrentRisk(t) ==
    /\ pc[t] = "deny_set"
    /\ LET f == fr[t]
           action == pending_actions[f.aid]
       IN  /\ pending_actions' = [pending_actions EXCEPT ![f.aid].status = "DENIED"]
           /\ fr' = [fr EXCEPT ![t] = [f EXCEPT
                        !.entry = AuditEntry(action.tool_name, action.args, "DENIED",
                                             get_tool_policy(policyFile,
                                                             action.tool_name).risk_level,
                                             [aid |-> f.aid, msg |-> "denied by user"]),
                        !.result = [kind |-> "DENIED", action_id |-> f.aid,
                                    tool |-> action.tool_name]]]
    /\ pc' = [pc EXCEPT ![t] = "audit"]
    /\ UNCHANGED <<policyFile, fs, audit_entries, execs, accessed, calls, probe>>

\* the mutant: deny sets DENIED on every action that is still PENDING
DenySetSweeps(t) ==
    /\ pc[t] = "deny_set"
    /\ LET f == fr[t]
           action == pending_actions[f.aid]
       IN  /\ pending_actions' =
                [a \in DOMAIN pending_actions |->
                    IF pending_actions[a].status = "PENDING"
                    THEN [pending_actions[a] EXCEPT !.status = "DENIED"]
                    ELSE pending_actions[a]]
           /\ fr' = [fr EXCEPT ![t] = [f EXCEPT
                        !.entry = AuditEntry(action.tool_name, action.args, "DENIED",
                                             action.risk_level,
                                             [aid |-> f.aid, msg |-> "denied by user"]),
                        !.result = [kind |-> "DENIED", action_id |-> f.aid,
                                    tool |-> action.tool_name]]]
    /\ pc' = [pc EXCEPT ![t] = "audit"]
    /\ UNCHANGED <<policyFile, fs, audit_entries, execs, accessed, calls, probe>>

\* deny: the status assignment
DenySet(t) ==
    /\ pc[t] = "deny_set"
    /\ LET f == fr[t]
           action == pending_actions[f.aid]
       IN  /\ pending_actions' = [pending_actions EXCEPT ![f.aid].status = "DENIED"]
           /\ fr' = [fr EXCEPT ![t] = [f EXCEPT
                        !.entry = AuditEntry(action.tool_name, action.args, "DENIED",
                                             action.risk_level,
                                             [aid |-> f.aid, msg |-> "denied by user"]),
                        !.result = [kind |-> "DENIED", action_id |-> f.aid,
                                    tool |-> action.tool_name]]]
    /\ pc' = [pc EXCEPT ![t] = "audit"]
    /\ UNCHANGED <<policyFile, fs, audit_entries, execs, accessed, calls, probe>>

(***************************************************************************)
(* Observability tools                                                     *)
(***************************************************************************)
\* [a for a in pending_actions.values() if a["status"] == "PENDING"], the keys
\* from..last taken in the order of the registry (the ids grow with insertion)
RECURSIVE PendingFrom(_, _)
PendingFrom(from, last) ==
    IF from > last THEN <<>>
    ELSE IF from \in DOMAIN pending_actions /\ pending_actions[from].status = "PENDING"
         THEN <<pending_actions[from]>> \o PendingFrom(from + 1, last)
         ELSE PendingFrom(from + 1, last)

\* the list of the registry's PENDING entries
PendingItems == PendingFrom(1, MaxCalls)

Min(a, b) == IF a < b THEN a ELSE b

Reverse(seq) == [i \in 1..Len(seq) |-> seq[Len(seq) + 1 - i]]

\* entries[-limit:]: the last limit entries, all of them for limit = 0 (-0 is 0),
\* and all but the first -limit for a negative limit
LastSlice(entries, limit) ==
    LET n == Len(entries)
        from == IF limit > 0 THEN n - Min(limit, n) + 1
                ELSE Min(0 - limit, n) + 1
    IN  SubSeq(entries, from, n)

\* list(reversed(audit_entries[-limit:]))
Recent(limit) == Reverse(LastSlice(audit_entries, limit))

\* the mutant: a tool that only reads records its own call in the audit log
ObserveAudited(t, op, args, result) ==
    /\ CanCall(t)
    /\ calls' = calls + 1
    /\ fr' = [fr EXCEPT ![t] = [Frame(op, args) EXCEPT !.result = result]]
    /\ pc' = [pc EXCEPT ![t] = "done"]
    /\ audit_entries' = Append(audit_entries, AuditEntry(op, args, "EXECUTED", "SAFE",
                                                         [msg |-> ""]))
    /\ UNCHANGED <<policyFile, fs, pending_actions, execs, accessed, probe>>

\* a tool that only reads: list_pending, audit_log, get_policy, get_dashboard,
\* get_dashboard_ui
Observe(t, op, args, result) ==
    /\ CanCall(t)
    /\ calls' = calls + 1
    /\ fr' = [fr EXCEPT ![t] = [Frame(op, args) EXCEPT !.result = result]]
    /\ pc' = [pc EXCEPT ![t] = "done"]
    /\ UNCHANGED <<policyFile, fs, pending_actions, audit_entries, execs, accessed, probe>>

\* the mutant: list_pending lists the registry without the status filter
ListPendingAll(t) ==
    Observe(t, "list_pending", <<>>,
            IF DOMAIN pending_actions = {} THEN [kind |-> "No pending actions."]
            ELSE [kind |-> "items",
                  items |-> [i \in 1..Cardinality(DOMAIN pending_actions) |->
                                pending_actions[i]]])

ListPending(t) ==
    Observe(t, "list_pending", <<>>,
            IF PendingItems = <<>> THEN [kind |-> "No pending actions."]
            ELSE [kind |-> "items", items |-> PendingItems])

AuditLog(t, limit) ==
    Observe(t, "audit_log", [limit |-> limit],
            IF audit_entries = <<>> THEN [kind |-> "Audit log is empty."]
            ELSE [kind |-> "entries", entries |-> Recent(limit)])

\* get_policy: json.load's error is not caught
GetPolicy(t) ==
    LET policy == load_policy(policyFile)
    IN  Observe(t, "get_policy", <<>>,
                IF Raises(policy) THEN EscapedResult(policy.raised)
                ELSE [kind |-> "policy", policy |-> policy])

DashboardLimit == 10

GetDashboard(t) ==
    LET policy == load_policy(policyFile)
    IN  Observe(t, "get_dashboard", <<>>,
                IF Raises(policy) THEN EscapedResult(policy.raised)
                ELSE [kind |-> "dashboard", policy |-> policy,
                      pending |-> PendingItems, recent |-> Recent(DashboardLimit),
                      total |-> Len(audit_entries)])

UiLimit == 20

\* get_dashboard_ui: the same three views, embedded in the HTML page
GetDashboardUi(t) ==
    LET policy == load_policy(policyFile)
    IN  Observe(t, "get_dashboard_ui", <<>>,
                IF Raises(policy) THEN EscapedResult(policy.raised)
                ELSE [kind |-> "html", policy |-> policy,
                      pending |-> PendingItems, recent |-> Recent(UiLimit)])

(***************************************************************************)
(* The environment: policy.json is edited while the server runs.  Only the *)
(* first step of a tool call reads the file (load_policy), so an edit at   *)
(* any other moment is the same edit made just before the next call starts.*)
(***************************************************************************)
EditPolicy(file) ==
    /\ file # policyFile
    /\ \E t \in Threads : CanCall(t)
    /\ policyFile' = file
    /\ UNCHANGED <<fs, pending_actions, audit_entries, pc, fr, execs, accessed, calls, probe>>

(***************************************************************************)
(* Specification                                                           *)
(***************************************************************************)
Limits == {0, 1}

Step(t) ==
    \/ \E path \in UserPaths : ReadFile(t, path)
    \/ \E w \in WriteInputs : WriteFile(t, w[1], w[2])
    \/ \E path \in UserPaths : DeleteFile(t, path)
    \/ \E command \in Commands : RunShell(t, command)
    \/ ExecDirect(t)
    \/ CreatePending(t)
    \/ AppendAudit(t)
    \/ \E aid \in KnownIds : Approve(t, aid)
    \/ ApproveExec(t)
    \/ ApproveSet(t)
    \/ \E aid \in KnownIds : Deny(t, aid)
    \/ DenySet(t)
    \/ ListPending(t)
    \/ \E limit \in Limits : AuditLog(t, limit)
    \/ GetPolicy(t)
    \/ GetDashboard(t)

\* tool calls served by worker threads that run concurrently
Next ==
    \/ \E t \in Threads : Step(t)
    \/ \E file \in PolicyFiles : EditPolicy(file)

Spec == Init /\ [][Next]_vars

\* tool calls served one at a time, policy.json edited between them
SeqNext ==
    \/ Step(1)
    \/ Free(1) /\ \E file \in PolicyFiles : EditPolicy(file)

SeqSpec == Init /\ [][SeqNext]_vars

(***************************************************************************)
(* safe_path on its own: every caller-supplied path of at most MaxSegs     *)
(* segments, relative or absolute                                          *)
(***************************************************************************)
Segments == {Up, "srv", "sandbox", "sandbox2", "a.txt"}

SegSeqs == UNION {[1..n -> Segments] : n \in 0..MaxSegs}

AllUserPaths == [abs : BOOLEAN, segs : SegSeqs]

PathInit ==
    /\ policyFile = NoFile
    /\ fs = EmptySandbox
    /\ pending_actions = <<>>
    /\ audit_entries = <<>>
    /\ pc = [t \in Threads |-> "idle"]
    /\ fr = [t \in Threads |-> NoFrame]
    /\ execs = [i \in {0} \cup Ids |-> 0]
    /\ accessed = {}
    /\ calls = 0
    /\ \E u \in AllUserPaths : probe = [phase |-> "input", path |-> u]

CheckPath ==
    /\ probe.phase = "input"
    /\ probe' = [phase |-> "checked", path |-> probe.path,
                 ok |-> safe_path(probe.path).ok,
                 target |-> safe_path(probe.path).target]
    /\ UNCHANGED <<policyFile, fs, pending_actions, audit_entries, pc, fr, execs,
                   accessed, calls>>

PathNext == CheckPath

PathSpec == PathInit /\ [][PathNext]_vars

(***************************************************************************)
(* The tools under faults, calls served one at a time: policy.json may be  *)
(* unparseable, and a path may name the sandbox root, a directory          *)
(***************************************************************************)
FaultFiles == {NoFile, InvalidFile, AllowAllFile}

FaultPaths == {InPath, RootPath}

FaultInit ==
    /\ policyFile \in FaultFiles
    /\ fs = EmptySandbox
    /\ pending_actions = <<>>
    /\ audit_entries = <<>>
    /\ pc = [t \in Threads |-> "idle"]
    /\ fr = [t \in Threads |-> NoFrame]
    /\ execs = [i \in {0} \cup Ids |-> 0]
    /\ accessed = {}
    /\ calls = 0
    /\ probe = [phase |-> "off"]

FaultNext ==
    \/ \E path \in FaultPaths : ReadFile(1, path)
    \/ \E path \in FaultPaths : WriteFile(1, path, "hi")
    \/ \E path \in FaultPaths : DeleteFile(1, path)
    \/ ExecDirect(1)
    \/ CreatePending(1)
    \/ AppendAudit(1)
    \/ \E aid \in KnownIds : Approve(1, aid)
    \/ ApproveExec(1)
    \/ ApproveSet(1)
    \/ \E aid \in KnownIds : Deny(1, aid)
    \/ DenySet(1)
    \/ GetPolicy(1)

FaultSpec == FaultInit /\ [][FaultNext]_vars

\* the same, with a call that has been taken running to its return: a handler
\* is straight-line code on its own thread, and no step of it waits
FaultLiveSpec ==
    /\ FaultSpec
    /\ WF_vars(ApproveExec(1))
    /\ WF_vars(ApproveSet(1))
    /\ WF_vars(AppendAudit(1))

(***************************************************************************)
(* Every tool of the server, get_dashboard_ui included, with calls served  *)
(* one at a time, on the one file a.txt and with more limits for audit_log *)
(***************************************************************************)
ViewLimits == {0, 1, 2}

OneFileNext ==
    \/ ReadFile(1, InPath)
    \/ WriteFile(1, InPath, "hi")
    \/ DeleteFile(1, InPath)
    \/ \E command \in Commands : RunShell(1, command)
    \/ ExecDirect(1)
    \/ CreatePending(1)
    \/ AppendAudit(1)
    \/ \E aid \in KnownIds : Approve(1, aid)
    \/ ApproveExec(1)
    \/ ApproveSet(1)
    \/ \E aid \in KnownIds : Deny(1, aid)
    \/ DenySet(1)
    \/ ListPending(1)
    \/ \E limit \in ViewLimits : AuditLog(1, limit)
    \/ GetPolicy(1)
    \/ GetDashboard(1)
    \/ GetDashboardUi(1)
    \/ Free(1) /\ \E file \in PolicyFiles : EditPolicy(file)

OneFileSpec == Init /\ [][OneFileNext]_vars

(***************************************************************************)
(* The registry when uuid4().hex[:8] is any id, one the registry holds     *)
(* included: write_file and delete_file under the default policy, with     *)
(* approve and deny, calls served one at a time                            *)
(***************************************************************************)
IdInit == Init /\ policyFile = NoFile

IdNext ==
    \/ \E content \in Contents : WriteFile(1, InPath, content)
    \/ DeleteFile(1, InPath)
    \/ \E aid \in Ids : CreatePendingAs(1, aid)
    \/ AppendAudit(1)
    \/ \E aid \in KnownIds : Approve(1, aid)
    \/ ApproveExec(1)
    \/ ApproveSet(1)
    \/ \E aid \in KnownIds : Deny(1, aid)
    \/ DenySet(1)

IdSpec == IdInit /\ [][IdNext]_vars

(***************************************************************************)
(* get_tool_policy on its own: every tool name, under every policy.json    *)
(* that lists some of the names, under none, and under an unparseable one  *)
(***************************************************************************)
ToolNames == Tools \cup {"unknown_tool"}

ProbeEntries == {Entry("SAFE", "allow", TRUE), Entry("SENSITIVE", "require_approval", TRUE)}

ProbeTables == UNION {[names -> ProbeEntries] : names \in SUBSET ToolNames}

ProbeFiles == {NoFile, InvalidFile} \cup {[exists |-> TRUE, table |-> tb] : tb \in ProbeTables}

PolicyInit ==
    /\ policyFile \in ProbeFiles
    /\ fs = EmptySandbox
    /\ pending_actions = <<>>
    /\ audit_entries = <<>>
    /\ pc = [t \in Threads |-> "idle"]
    /\ fr = [t \in Threads |-> NoFrame]
    /\ execs = [i \in {0} \cup Ids |-> 0]
    /\ accessed = {}
    /\ calls = 0
    /\ \E tool_name \in ToolNames : probe = [phase |-> "input", tool_name |-> tool_name]

LookupPolicy ==
    /\ probe.phase = "input"
    /\ probe' = [phase |-> "looked", tool_name |-> probe.tool_name,
                 policy |-> get_tool_policy(policyFile, probe.tool_name)]
    /\ UNCHANGED <<policyFile, fs, pending_actions, audit_entries, pc, fr, execs,
                   accessed, calls>>

PolicyNext == LookupPolicy

PolicySpec == PolicyInit /\ [][PolicyNext]_vars

(***************************************************************************)
(* audit() in two steps, as worker threads run it: the entry is built with *)
(* datetime.now() as its ts, and appended afterwards.  The wall clock is   *)
(* kept in probe and only moves forward.                                   *)
(***************************************************************************)
ClockInit ==
    /\ policyFile = NoFile
    /\ fs = EmptySandbox
    /\ pending_actions = <<>>
    /\ audit_entries = <<>>
    /\ pc = [t \in Threads |-> "idle"]
    /\ fr = [t \in Threads |-> NoFrame]
    /\ execs = [i \in {0} \cup Ids |-> 0]
    /\ accessed = {}
    /\ calls = 0
    /\ probe = [phase |-> "clock", now |-> 0]

\* time passes
Tick ==
    /\ probe.now < MaxTicks
    /\ probe' = [probe EXCEPT !.now = @ + 1]
    /\ UNCHANGED <<policyFile, fs, pending_actions, audit_entries, pc, fr, execs,
                   accessed, calls>>

Stamped(entry) == "ts" \in DOMAIN entry

\* audit(): the entry dict is built, "ts" being the clock's reading
StampEntry(t) ==
    /\ pc[t] = "audit"
    /\ ~Stamped(fr[t].entry)
    /\ fr' = [fr EXCEPT ![t].entry = [ts |-> probe.now] @@ fr[t].entry]
    /\ UNCHANGED <<policyFile, fs, pending_actions, audit_entries, pc, execs,
                   accessed, calls, probe>>

\* audit(): audit_entries.append(entry)
AppendStamped(t) == Stamped(fr[t].entry) /\ AppendAudit(t)

ClockNext ==
    \/ \E t \in Threads :
          \/ ReadFile(t, InPath)
          \/ WriteFile(t, InPath, "hi")
          \/ CreatePending(t)
          \/ StampEntry(t)
          \/ AppendStamped(t)
    \/ Tick

ClockSpec == ClockInit /\ [][ClockNext]_vars

(***************************************************************************)
(* _sanitize_args on its own: argument maps over any set of keys, with     *)
(* string values on both sides of the limit and values that are no strings *)
(***************************************************************************)
RECURSIVE Fill(_)
\* "x" * n, built by halves
Fill(n) ==
    IF n = 0 THEN ""
    ELSE IF n % 2 = 0 THEN LET half == Fill(n \div 2) IN half \o half
         ELSE "x" \o Fill(n - 1)

\* strings of 2, 200, 201 and 202 characters
Texts == {"hi", Fill(SanitizeLimit), "a" \o Fill(SanitizeLimit), Fill(SanitizeLimit) \o "yz"}

ArgValues(k) ==
    CASE k = "path" -> {InPath, OutPath}
      [] k = "content" -> Texts
      [] k = "command" -> {"ls", "b" \o Fill(SanitizeLimit)}
      [] k = "content_length" -> {StrLen("hi"), SanitizeLimit + 1}

\* key k left out, or given one of its values
Part(k) == {[x \in {} |-> k]} \cup {[x \in {k} |-> v] : v \in ArgValues(k)}

ArgMaps ==
    {a @@ b @@ c @@ d : a \in Part("path"), b \in Part("content"),
                        c \in Part("command"), d \in Part("content_length")}

SanitizeInit ==
    /\ policyFile = NoFile
    /\ fs = EmptySandbox
    /\ pending_actions = <<>>
    /\ audit_entries = <<>>
    /\ pc = [t \in Threads |-> "idle"]
    /\ fr = [t \in Threads |-> NoFrame]
    /\ execs = [i \in {0} \cup Ids |-> 0]
    /\ accessed = {}
    /\ calls = 0
    /\ \E args \in ArgMaps : probe = [phase |-> "input", args |-> args]

Sanitize ==
    /\ probe.phase = "input"
    /\ probe' = [phase |-> "sanitized", args |-> probe.args,
                 out |-> _sanitize_args(probe.args)]
    /\ UNCHANGED <<policyFile, fs, pending_actions, audit_entries, pc, fr, execs,
                   accessed, calls>>

SanitizeNext == Sanitize

SanitizeSpec == SanitizeInit /\ [][SanitizeNext]_vars

(***************************************************************************)
(* write_file with a content longer than the limit of _sanitize_args, on   *)
(* a.txt, with read_file, approve and deny, calls served one at a time     *)
(***************************************************************************)
LongText == "a" \o Fill(SanitizeLimit)

LongContents == {"hi", LongText}

LongNext ==
    \/ ReadFile(1, InPath)
    \/ \E content \in LongContents : WriteFile(1, InPath, content)
    \/ ExecDirect(1)
    \/ CreatePending(1)
    \/ AppendAudit(1)
    \/ \E aid \in KnownIds : Approve(1, aid)
    \/ ApproveExec(1)
    \/ ApproveSet(1)
    \/ \E aid \in KnownIds : Deny(1, aid)
    \/ DenySet(1)
    \/ Free(1) /\ \E file \in PolicyFiles : EditPolicy(file)

LongSpec == Init /\ [][LongNext]_vars

(***************************************************************************)
(* _exec on its own: any tool name, the file tools with the arguments they *)
(* are called with, any other name with any argument map                   *)
(***************************************************************************)
OtherNames == {"run_shell", "approve", "exec", ""}

ExecInputs ==
    {[tool |-> tool, args |-> args] : tool \in OtherNames, args \in ArgMaps}
    \cup {[tool |-> tool, args |-> args] :
            tool \in FileTools,
            args \in {m \in ArgMaps : {"path", "content"} \subseteq DOMAIN m}}

\* the sandbox empty, or holding a.txt
ExecFiles == {EmptySandbox, [EmptySandbox EXCEPT ![safe_path(InPath).target] = "hi"]}

ExecInit ==
    /\ policyFile = NoFile
    /\ fs \in ExecFiles
    /\ pending_actions = <<>>
    /\ audit_entries = <<>>
    /\ pc = [t \in Threads |-> "idle"]
    /\ fr = [t \in Threads |-> NoFrame]
    /\ execs = [i \in {0} \cup Ids |-> 0]
    /\ accessed = {}
    /\ calls = 0
    /\ \E input \in ExecInputs :
          probe = [phase |-> "input", tool |-> input.tool, args |-> input.args]

Execute ==
    /\ probe.phase = "input"
    /\ LET r == _exec(probe.tool, probe.args, fs)
       IN  /\ fs' = r.files
           /\ accessed' = accessed \cup r.touched
           /\ probe' = [phase |-> "executed", tool |-> probe.tool, args |-> probe.args,
                        before |-> fs, out |-> r.out, raised |-> r.raised]
    /\ UNCHANGED <<policyFile, pending_actions, audit_entries, pc, fr, execs, calls>>

ExecNext == Execute

ExecSpec == ExecInit /\ [][ExecNext]_vars

(***************************************************************************)
(* Properties                                                              *)
(***************************************************************************)
\* this step is thread t taking a new tool call
StartsCall(t) == CanCall(t) /\ calls' = calls + 1

\* the audit entries that record a successful approve or deny of action a
Successes(a) ==
    {i \in DOMAIN audit_entries :
        /\ audit_entries[i].decision \in {"APPROVED_EXECUTED", "DENIED"}
        /\ audit_entries[i].detail.aid = a}

\* the entry forbids the operation for good: not allowed, not approvable
NeverPermitted(policy) == policy.default_action # "allow" /\ ~policy.allow_approval

\* C1: when approve(id) calls race on a Pending action, _exec runs at most once
\* for it, and at most one of the calls returns the approved-and-executed result.
C1_ExecutedAtMostOnce ==
    /\ \A a \in Ids : execs[a] <= 1
    /\ \A t, u \in Threads :
          (/\ t # u
           /\ fr[t].op = "approve" /\ fr[u].op = "approve" /\ fr[t].aid = fr[u].aid
           /\ fr[t].result.kind = "APPROVED_AND_EXECUTED")
          => fr[u].result.kind # "APPROVED_AND_EXECUTED"

\* C2: when approve(id) and deny(id) race on a Pending action, a deny that
\* returns the Denied result means _exec never runs for that action.
C2_DeniedNeverExecuted ==
    \A t \in Threads :
        (fr[t].op = "deny" /\ fr[t].result.kind = "DENIED") => execs[fr[t].aid] = 0

C4_StatusChangesOnce ==
    [][/\ \A a \in DOMAIN pending_actions :
            pending_actions'[a].status # pending_actions[a].status
            => /\ pending_actions[a].status = "PENDING"
               /\ pending_actions'[a].status \in {"APPROVED", "DENIED", "ERROR"}
       /\ \A a \in DOMAIN pending_actions' \ DOMAIN pending_actions :
            pending_actions'[a].status = "PENDING"]_vars

\* C5: with calls served one at a time, a file changes only in the _exec of a
\* write_file or delete_file call whose policy entry said allow, or in the _exec
\* of approve(id) on an action that is PENDING, and then by exactly the stored
\* tool and arguments.
C5_FilesChangeOnlyByAllowOrApprove ==
    [][fs' # fs =>
        \E t \in Threads :
            \/ /\ pc[t] = "exec" /\ pc'[t] = "audit"
               /\ fr[t].op \in {"write_file", "delete_file"}
               /\ fr[t].policy.default_action = "allow"
               /\ fs' = _exec(fr[t].op, fr[t].args, fs).files
            \/ /\ pc[t] = "approve_exec" /\ pc'[t] = "approve_set"
               /\ pending_actions[fr[t].aid].status = "PENDING"
               /\ fs' = _exec(pending_actions[fr[t].aid].tool_name,
                              pending_actions[fr[t].aid].args, fs).files]_vars

\* C5's case: a file exists that only an approve can have written
C5_Witness ==
    /\ execs[0] = 0
    /\ \E p \in FsPaths : fs[p] # Absent
    /\ \E a \in DOMAIN pending_actions : pending_actions[a].status = "APPROVED"

\* C6: under every policy file, a run_shell call returns the blocked result in
\* one step that appends exactly one entry, BLOCKED with risk DANGEROUS, and
\* changes neither the registry nor the files, and does not run _exec.
C6_RunShellAlwaysBlocked ==
    [][\A t \in Threads :
        (StartsCall(t) /\ fr'[t].op = "run_shell")
        => /\ pc'[t] = "done"
           /\ fr'[t].result.kind = "BLOCKED"
           /\ Len(audit_entries') = Len(audit_entries) + 1
           /\ SubSeq(audit_entries', 1, Len(audit_entries)) = audit_entries
           /\ LET e == audit_entries'[Len(audit_entries')]
              IN  e.tool = "run_shell" /\ e.decision = "BLOCKED" /\ e.risk = "DANGEROUS"
           /\ UNCHANGED <<pending_actions, fs, execs, accessed>>]_vars

\* C6's case: run_shell returned while policy.json allowed it
C6_Witness ==
    \E t \in Threads :
        /\ pc[t] = "done"
        /\ fr[t].op = "run_shell"
        /\ get_tool_policy(policyFile, "run_shell").default_action = "allow"
        /\ audit_entries # <<>>
        /\ audit_entries[Len(audit_entries)].tool = "run_shell"

\* C7: approve(id) never runs _exec for an action whose tool's current policy
\* entry is neither allow nor approvable.
C7_NeverPermittedNeverApproved ==
    [][\A a \in DOMAIN pending_actions :
        execs'[a] > execs[a]
        => ~NeverPermitted(get_tool_policy(policyFile, pending_actions[a].tool_name))]_vars

\* C8: safe_path raises for every path whose normalized form is neither the
\* sandbox root nor below it.
C8_EscapesRejected ==
    (probe.phase = "checked" /\ ~IsContained(probe.target)) => ~probe.ok

\* C9: a read_file, write_file or delete_file call whose path fails safe_path
\* goes straight to its audit() call, which appends the one entry BLOCKED /
\* DANGEROUS, and returns the path-traversal result; it adds nothing to the
\* registry, does not run _exec and touches no file.
C9_TraversalBlocked ==
    /\ [](\A t \in Threads :
            (fr[t].op \in FileTools /\ ~safe_path(fr[t].args.path).ok)
            => /\ pc[t] \in {"audit", "done"}
               /\ fr[t].result = TraversalResult(fr[t].args.path)
               /\ fr[t].entry = TraversalEntry(fr[t].op, fr[t].args.path)
               /\ fr[t].entry.decision = "BLOCKED" /\ fr[t].entry.risk = "DANGEROUS")
    /\ [][\A t \in Threads :
            /\ (/\ StartsCall(t)
                /\ fr'[t].op \in FileTools
                /\ ~safe_path(fr'[t].args.path).ok)
               => /\ pc'[t] = "audit"
                  /\ UNCHANGED <<pending_actions, audit_entries, fs, execs, accessed>>
            /\ (/\ pc[t] = "audit" /\ pc'[t] # "audit"
                /\ fr[t].op \in FileTools
                /\ ~safe_path(fr[t].args.path).ok)
               => /\ pc'[t] = "done"
                  /\ audit_entries' = Append(audit_entries, fr[t].entry)
                  /\ UNCHANGED <<pending_actions, fs, execs, accessed>>]_vars

\* C9's case: a write_file with an escaping path returned while the policy
\* allowed write_file
C9_Witness ==
    \E t \in Threads :
        /\ pc[t] = "done"
        /\ fr[t].op = "write_file"
        /\ ~safe_path(fr[t].args.path).ok
        /\ get_tool_policy(policyFile, "write_file").default_action = "allow"

\* C10: every path a file operation is applied to is the sandbox root or lies
\* below it.
C10_OnlySandboxAccessed == \A p \in accessed : IsContained(p)

\* thread t's frame is that of an approve that executed a write_file action
ApprovedWrite(f) ==
    /\ f.op = "approve"
    /\ f.result.kind = "APPROVED_AND_EXECUTED"
    /\ pending_actions[f.aid].tool_name = "write_file"

C12_DenyNeverExecutes ==
    /\ [](\A a \in DOMAIN pending_actions :
            pending_actions[a].status = "DENIED" => execs[a] = 0)
    /\ [][/\ \A a \in DOMAIN pending_actions :
              pending_actions[a].status = "DENIED"
              => pending_actions'[a].status = "DENIED" /\ execs'[a] = execs[a]
          /\ \A t \in Threads :
              /\ (/\ StartsCall(t)
                  /\ fr'[t].op = "deny"
                  /\ fr'[t].aid \in DOMAIN pending_actions
                  /\ pending_actions[fr'[t].aid].status = "PENDING")
                 => /\ pc'[t] = "deny_set"
                    /\ UNCHANGED <<pending_actions, audit_entries, fs, execs>>
              /\ (pc[t] = "deny_set" /\ pc'[t] # "deny_set")
                 => /\ pc'[t] = "audit"
                    /\ pending_actions' =
                         [pending_actions EXCEPT ![fr[t].aid].status = "DENIED"]
                    /\ fr'[t].entry.decision = "DENIED"
                    /\ fr'[t].result.kind = "DENIED"
                    /\ UNCHANGED <<audit_entries, fs, execs>>
              /\ (pc[t] = "audit" /\ pc'[t] # "audit" /\ fr[t].op = "deny")
                 => /\ pc'[t] = "done"
                    /\ audit_entries' = Append(audit_entries, fr[t].entry)
                    /\ fr[t].entry.decision = "DENIED"
                    /\ UNCHANGED <<pending_actions, fs, execs>>
      ]_vars

\* C12's case: an action was denied, and an approve of it made afterwards came
\* back with the already-resolved error
C12_Witness ==
    \E t \in Threads :
        /\ pc[t] = "done"
        /\ fr[t].op = "approve"
        /\ fr[t].result = AlreadyResult(fr[t].aid, "DENIED")
        /\ execs[fr[t].aid] = 0

\* the tools whose every invocation is to be audited
MediatedTools == {"read_file", "write_file", "delete_file", "run_shell"}

\* this step is thread t returning from the call it serves
Returns(t) == pc'[t] = "done" /\ (pc[t] \notin {"idle", "done"} \/ calls' # calls)

\* the call thread t returns from resolved a queued action
Resolved(f) ==
    /\ f.op \in {"approve", "deny"}
    /\ f.result.kind \in {"APPROVED_AND_EXECUTED", "Execution error", "DENIED"}

\* C13: every invocation of read_file, write_file, delete_file or run_shell,
\* whatever its outcome, and every resolution of a queued action by approve or
\* deny has appended exactly one audit entry when it returns, and nothing else
\* appends: with calls served one at a time, the log grows by exactly one entry
\* per invocation and one per resolution.
C13_OneEntryPerCall ==
    [][/\ \A t \in Threads :
            Returns(t)
            => IF fr'[t].op \in MediatedTools \/ Resolved(fr'[t])
               THEN /\ Len(audit_entries') = Len(audit_entries) + 1
                    /\ SubSeq(audit_entries', 1, Len(audit_entries)) = audit_entries
               ELSE audit_entries' = audit_entries
       /\ (\A t \in Threads : ~Returns(t)) => audit_entries' = audit_entries]_vars

\* _exec failed: it raised, or it came back with the file-not-found text
ExecFailed(raised, out) == raised # "none" \/ out.kind = "file not found"

\* C14: when _exec fails while approve(id) executes a PENDING action (it
\* raises, or the target of an approved read_file or delete_file is missing),
\* approve sets the status ERROR, builds an audit entry tagged ERROR and returns
\* the execution error.
C14_ApproveFailureGivesError ==
    [][\A t \in Threads :
        (/\ pc[t] = "approve_set" /\ pc'[t] # "approve_set"
         /\ ExecFailed(fr[t].raised, fr[t].out))
        => /\ pending_actions'[fr[t].aid].status = "ERROR"
           /\ fr'[t].entry.decision = "ERROR"
           /\ fr'[t].result.kind = "Execution error"]_vars

\* C15: when the policy entry of the tool says allow, the audit entry built for
\* the invocation carries the entry's risk level and is tagged ERROR when the
\* target of a read_file or delete_file is missing, EXECUTED when the operation
\* succeeds.
C15_AllowedFailureTaggedError ==
    [][\A t \in Threads :
        /\ (/\ StartsCall(t)
            /\ fr'[t].op = "read_file"
            /\ safe_path(fr'[t].args.path).ok
            /\ get_tool_policy(policyFile, "read_file").default_action = "allow")
           => /\ fr'[t].entry.risk = get_tool_policy(policyFile, "read_file").risk_level
              /\ fr'[t].entry.decision =
                    IF fs[safe_path(fr'[t].args.path).target] = Absent
                    THEN "ERROR" ELSE "EXECUTED"
        /\ (pc[t] = "exec" /\ pc'[t] # "exec")
           => /\ fr'[t].entry.risk = fr[t].policy.risk_level
              /\ fr'[t].entry.decision =
                    IF ExecFailed(fr'[t].raised, fr'[t].out) THEN "ERROR" ELSE "EXECUTED"]_vars

\* what a file tool did with the call it has just taken: position pcv, frame f
Taken(pcv, f) ==
    IF f.result.kind = "BLOCKED" THEN "block"
    ELSE IF pcv = "create" THEN "queue"
    ELSE IF pcv = "exec" \/ (f.op = "read_file" /\ f.entry.decision \in {"EXECUTED", "ERROR"})
         THEN "execute"
         ELSE "other"

\* the risk level the call's audit entry gets
TakenRisk(f) == IF f.entry = NoEntry THEN f.risk ELSE f.entry.risk

\* the decision table: allow executes, approvable queues, anything else blocks
TableDecision(policy) ==
    IF policy.default_action = "allow" THEN "execute"
    ELSE IF policy.allow_approval THEN "queue"
         ELSE "block"

\* this step is thread t taking a file tool's call with a contained path
StartsFileCall(t) ==
    /\ StartsCall(t)
    /\ fr'[t].op \in FileTools
    /\ IsContained(safe_path(fr'[t].args.path).target)

\* C16: a read_file, write_file or delete_file call with a contained path does
\* what the decision table says for the tool's policy entry (allow: executed at
\* once; not allow and approvable: queued; not allow and not approvable:
\* blocked), and its audit entry carries that entry's risk level.
C16_DecisionTable ==
    [][\A t \in Threads :
        StartsFileCall(t)
        => LET policy == get_tool_policy(policyFile, fr'[t].op)
           IN  /\ Taken(pc'[t], fr'[t]) = TableDecision(policy)
               /\ TakenRisk(fr'[t]) = policy.risk_level]_vars

\* the decision as a function of the tool and its policy entry, and of nothing
\* else: read_file executes, write_file and delete_file follow the table
EntryDecision(op, policy) ==
    IF op = "read_file" THEN "execute" ELSE TableDecision(policy)

\* C17: whatever the registry, the audit log and the files hold when a
\* read_file, write_file or delete_file call with a contained path is taken, the
\* decision (execute, queue or block) is the value of one function of the tool
\* and its policy entry; so two runs with the same tool, path and entry decide
\* alike from any two states.
C17_DecisionFromEntryAlone ==
    [][\A t \in Threads :
        StartsFileCall(t)
        => Taken(pc'[t], fr'[t]) =
             EntryDecision(fr'[t].op, get_tool_policy(policyFile, fr'[t].op))]_vars

\* C17's case: a write_file is queued from a state whose registry, audit log
\* and files are not the initial ones (from the initial state it is queued too)
C17_Witness ==
    \E t \in Threads :
        /\ pc[t] = "create"
        /\ fr[t].op = "write_file"
        /\ DOMAIN pending_actions # {}
        /\ audit_entries # <<>>
        /\ \E p \in FsPaths : fs[p] # Absent

\* the audit entry a call that has just been taken will append, or has appended
BuiltEntry(t) ==
    IF fr'[t].entry = NoEntry THEN audit_entries'[Len(audit_entries')] ELSE fr'[t].entry

\* C18: an entry enters the registry only in the _create_pending of a call
\* whose policy entry, read when the call was taken, is approvable and not
\* allow; and a read_file, write_file, delete_file or run_shell call whose
\* policy entry is neither allow nor approvable is blocked: its one audit entry
\* is tagged BLOCKED and the registry stays as it is.
C18_OnlyApprovableQueued ==
    [][/\ \A a \in DOMAIN pending_actions' \ DOMAIN pending_actions :
            \E t \in Threads :
                /\ pc[t] = "create"
                /\ pending_actions'[a].tool_name = fr[t].op
                /\ fr[t].policy.allow_approval
                /\ fr[t].policy.default_action # "allow"
       /\ \A t \in Threads :
            /\ (/\ StartsCall(t)
                /\ fr'[t].op \in MediatedTools
                /\ NeverPermitted(get_tool_policy(policyFile, fr'[t].op)))
               => /\ pc'[t] \in {"audit", "done"}
                  /\ fr'[t].result.kind = "BLOCKED"
                  /\ BuiltEntry(t).decision = "BLOCKED"
                  /\ pending_actions' = pending_actions
            /\ (pc[t] = "audit" /\ pc'[t] # "audit")
               => /\ audit_entries' = Append(audit_entries, fr[t].entry)
                  /\ pending_actions' = pending_actions]_vars

\* policy.json lists the tool: the file is there, parses, and has the key
InConfiguration(file, tool_name) ==
    file.exists /\ file.table # Garbage /\ tool_name \in DOMAIN file.table

NoUsableFile(file) == ~file.exists \/ file.table = Garbage

\* C20: while policy.json is absent or unparseable, the lookup of each of the
\* four tools gives its DEFAULT_POLICY entry, and the tools behave as under
\* DEFAULT_POLICY: a write_file or delete_file call with a contained path is
\* queued with the default entry's risk, and get_policy returns DEFAULT_POLICY.
C20_FallsBackToDefaults ==
    [][\A t \in Threads :
        (StartsCall(t) /\ NoUsableFile(policyFile))
        => /\ \A tool_name \in Tools :
                get_tool_policy(policyFile, tool_name) = DEFAULT_POLICY[tool_name]
           /\ (/\ fr'[t].op \in {"write_file", "delete_file"}
               /\ IsContained(safe_path(fr'[t].args.path).target))
              => /\ pc'[t] = "create"
                 /\ fr'[t].risk = DEFAULT_POLICY[fr'[t].op].risk_level
           /\ fr'[t].op = "get_policy"
              => fr'[t].result = [kind |-> "policy", policy |-> DEFAULT_POLICY]]_vars

\* C21: on a log of T >= 1 entries, audit_log(limit) with limit >= 0 returns
\* exactly min(limit, T) entries, the last appended ones, the most recent
\* first.
C21_AuditLogReturnsLastEntries ==
    \A t \in Threads :
        (/\ pc[t] = "done"
         /\ fr[t].op = "audit_log"
         /\ fr[t].args.limit >= 0
         /\ audit_entries # <<>>)
        => LET total == Len(audit_entries)
               entries == fr[t].result.entries
           IN  /\ fr[t].result.kind = "entries"
               /\ Len(entries) = Min(fr[t].args.limit, total)
               /\ \A i \in 1..Len(entries) : entries[i] = audit_entries[total + 1 - i]

\* the tools that only read
ViewTools == {"list_pending", "audit_log", "get_policy", "get_dashboard", "get_dashboard_ui"}

\* C22: a call of list_pending, audit_log, get_policy, get_dashboard or
\* get_dashboard_ui, in any state and with any argument, returns in one step
\* that leaves the registry (keys, statuses, stored arguments), the audit log
\* and the files as they were.
C22_ViewsChangeNothing ==
    [][\A t \in Threads :
        (StartsCall(t) /\ fr'[t].op \in ViewTools)
        => /\ pc'[t] = "done"
           /\ UNCHANGED <<pending_actions, audit_entries, fs>>]_vars

\* C22's case: get_dashboard_ui has returned while the registry holds an
\* action, the log an entry and the sandbox a file
C22_Witness ==
    \E t \in Threads :
        /\ pc[t] = "done"
        /\ fr[t].op = "get_dashboard_ui"
        /\ fr[t].result.kind = "html"
        /\ DOMAIN pending_actions # {}
        /\ audit_entries # <<>>
        /\ \E p \in FsPaths : fs[p] # Absent

\* the items a list_pending result carries
ListedItems(result) == IF result.kind = "items" THEN result.items ELSE <<>>

\* C23: what list_pending has returned is exactly the registry's PENDING
\* entries: each PENDING action is listed once, as the registry holds it, and
\* no APPROVED, DENIED or ERROR action is listed.
C23_ListPendingExact ==
    \A t \in Threads :
        (pc[t] = "done" /\ fr[t].op = "list_pending")
        => LET items == ListedItems(fr[t].result)
           IN  /\ \A a \in DOMAIN pending_actions :
                     Cardinality({i \in 1..Len(items) : items[i].id = a}) =
                        IF pending_actions[a].status = "PENDING" THEN 1 ELSE 0
               /\ \A i \in 1..Len(items) :
                     /\ items[i].id \in DOMAIN pending_actions
                     /\ items[i] = pending_actions[items[i].id]

\* C23's case: list_pending has returned while the registry holds a resolved
\* action, which it leaves out
C23_Witness ==
    \E t \in Threads :
        /\ pc[t] = "done"
        /\ fr[t].op = "list_pending"
        /\ \E a \in DOMAIN pending_actions : pending_actions[a].status # "PENDING"

\* C24: the audit log is append-only: every step leaves the entries it held
\* as they were and where they were, and puts new entries only at the end, so
\* the log before a step is a prefix of the log after it.
C24_AuditLogAppendOnly ==
    [][/\ Len(audit_entries') >= Len(audit_entries)
       /\ SubSeq(audit_entries', 1, Len(audit_entries)) = audit_entries]_vars

\* C24's case: the log holds two entries that differ
C24_Witness ==
    \E i, j \in DOMAIN audit_entries : i < j /\ audit_entries[i] # audit_entries[j]

\* C25: approve(id) and deny(id) with an id that is not a key of the registry
\* return the not-found error in one step that leaves the registry, the audit
\* log and the files as they were and does not run _exec.
C25_UnknownIdChangesNothing ==
    [][\A t \in Threads :
        (/\ StartsCall(t)
         /\ fr'[t].op \in {"approve", "deny"}
         /\ fr'[t].aid \notin DOMAIN pending_actions)
        => /\ pc'[t] = "done"
           /\ fr'[t].result = NotFoundResult(fr'[t].aid)
           /\ UNCHANGED <<pending_actions, audit_entries, fs, execs, accessed>>]_vars

\* C25's case: an approve has returned the not-found error while the registry
\* holds an action under another id
C25_Witness ==
    \E t \in Threads :
        /\ pc[t] = "done"
        /\ fr[t].op = "approve"
        /\ fr[t].result.kind = "not found"
        /\ DOMAIN pending_actions # {}
        /\ fr[t].aid \notin DOMAIN pending_actions

Resolving(t, a) ==
    /\ pc[t] \in {"approve_exec", "approve_set", "deny_set"}
    /\ fr[t].aid = a

C28_RiskSnapshot ==
    [][\A t \in Threads :
        /\ (StartsFileCall(t) /\ pc'[t] = "create")
           => fr'[t].risk = get_tool_policy(policyFile, fr'[t].op).risk_level
        /\ (pc[t] = "create" /\ pc'[t] # "create")
           => pending_actions'[fr'[t].aid].risk_level = fr[t].risk
        /\ \A a \in DOMAIN pending_actions :
              pending_actions'[a].risk_level = pending_actions[a].risk_level
        /\ (pc[t] \in {"approve_set", "deny_set"} /\ pc'[t] = "audit")
           => fr'[t].entry.risk = pending_actions[fr[t].aid].risk_level]_vars

\* C28's case: the audit log holds the resolution of an action with the stored
\* risk level, and the policy now gives the action's tool another level
C28_Witness ==
    \E i \in DOMAIN audit_entries :
        /\ audit_entries[i].decision \in {"APPROVED_EXECUTED", "DENIED"}
        /\ LET a == audit_entries[i].detail.aid
           IN  /\ audit_entries[i].risk = pending_actions[a].risk_level
               /\ get_tool_policy(policyFile, pending_actions[a].tool_name).risk_level
                     # pending_actions[a].risk_level

\* the audit entries that record a resolution and name action a
ResolutionEntries(a) ==
    {i \in DOMAIN audit_entries :
        /\ audit_entries[i].decision \in {"APPROVED_EXECUTED", "DENIED", "ERROR"}
        /\ "aid" \in DOMAIN audit_entries[i].detail
        /\ audit_entries[i].detail.aid = a}

\* C29: when no call is in progress, every action whose status is APPROVED,
\* DENIED or ERROR has exactly one audit entry that records the resolution and
\* names the action's id, and an action that is PENDING has none.
C29_OneResolutionEntryById ==
    (\A t \in Threads : Free(t))
    => \A a \in DOMAIN pending_actions :
          IF pending_actions[a].status = "PENDING"
          THEN ResolutionEntries(a) = {}
          ELSE \E i \in DOMAIN audit_entries : ResolutionEntries(a) = {i}

\* the calls that were queued: each one appended a PENDING_APPROVAL entry
QueuedCalls ==
    {i \in DOMAIN audit_entries : audit_entries[i].decision = "PENDING_APPROVAL"}

\* C30: _create_pending takes an id that is not a key of the registry and
\* leaves every entry the registry holds as it was; so, when no call is in
\* progress, the registry has as many entries as calls were queued.
C30_CreationUsesFreshId ==
    /\ []((\A t \in Threads : Free(t))
          => Cardinality(DOMAIN pending_actions) = Cardinality(QueuedCalls))
    /\ [][\A t \in Threads :
            (pc[t] = "create" /\ pc'[t] # "create")
            => /\ fr'[t].aid \notin DOMAIN pending_actions
               /\ \A a \in DOMAIN pending_actions :
                     pending_actions'[a] = pending_actions[a]]_vars

\* the audit entries that record the queueing of action a
QueueingEntries(a) ==
    {i \in DOMAIN audit_entries :
        /\ audit_entries[i].decision = "PENDING_APPROVAL"
        /\ audit_entries[i].detail.action_id = a}

\* C31: when an approve or a deny appends the entry that records the
\* resolution of an action (APPROVED_EXECUTED, DENIED or ERROR), the audit log
\* already holds the PENDING_APPROVAL entry of that action, also when the
\* approve or deny runs while the call that queues the action is in progress.
C31_QueuedBeforeResolved ==
    [][\A t \in Threads :
        (/\ pc[t] = "audit"
         /\ pc'[t] = "done"
         /\ fr[t].op \in {"approve", "deny"})
        => QueueingEntries(fr[t].aid) # {}]_vars

\* C32: approve takes the action out of PENDING before it runs _exec: when
\* _exec runs for approve(id), the status of action id is not PENDING and
\* list_pending would not return the action.
C32_NotPendingWhileExecuting ==
    [][\A t \in Threads :
        (pc[t] = "approve_exec" /\ pc'[t] = "approve_set")
        => /\ pending_actions[fr[t].aid].status # "PENDING"
           /\ \A i \in DOMAIN PendingItems : PendingItems[i].id # fr[t].aid]_vars

\* C33: the audit log is in the order of its timestamps: of two entries, the
\* one appended earlier has a ts that is not later than the other's, also when
\* the calls run on concurrent threads.
C33_LogOrderedByTimestamp ==
    \A i, j \in DOMAIN audit_entries :
        i < j => audit_entries[i].ts <= audit_entries[j].ts

\* C34: the copy _sanitize_args makes of an argument map has the keys of the
\* map; a string value longer than 200 characters is its first 200 characters
\* followed by a suffix that states its length; a string value of at most 200
\* characters and a value that is not a string are copied as they are.
C34_SanitizedCopy ==
    probe.phase = "sanitized"
    => /\ DOMAIN probe.out = DOMAIN probe.args
       /\ \A k \in DOMAIN probe.args :
             LET v == probe.args[k]
                 w == probe.out[k]
             IN  IF k \in StrKeys /\ Len(v) > SanitizeLimit
                 THEN /\ Len(w) > SanitizeLimit
                      /\ \A i \in 1..SanitizeLimit : SubSeq(w, i, i) = SubSeq(v, i, i)
                      /\ SubSeq(w, SanitizeLimit + 1, Len(w))
                            = "...(" \o ToString(Len(v)) \o " bytes)"
                 ELSE w = v

\* C34's case: a map with a string value longer than the limit, cut in the
\* copy, next to a value that is no string and is copied
C34_Witness ==
    /\ probe.phase = "sanitized"
    /\ \E k \in DOMAIN probe.args \cap StrKeys :
          Len(probe.args[k]) > SanitizeLimit /\ probe.out[k] # probe.args[k]
    /\ "content_length" \in DOMAIN probe.args
    /\ probe.args.content_length > SanitizeLimit
    /\ probe.out.content_length = probe.args.content_length

\* C35: appending an audit entry leaves the registry as it was; the registry
\* gets the arguments of the queued call as the caller gave them and no step
\* changes them, so a queued write_file with a content longer than 200
\* characters keeps the full content; and an approve writes to the file
\* exactly the content of the queued call, not the cut copy of the audit log.
C35_RegistryKeepsFullArguments ==
    [][\A t \in Threads :
        /\ audit_entries' # audit_entries => pending_actions' = pending_actions
        /\ (pc[t] = "create" /\ pc'[t] # "create")
           => pending_actions'[fr'[t].aid].args = fr[t].args
        /\ \A a \in DOMAIN pending_actions :
              pending_actions'[a].args = pending_actions[a].args
        /\ (/\ pc[t] = "approve_exec"
            /\ pc'[t] = "approve_set"
            /\ pending_actions[fr[t].aid].tool_name = "write_file")
           => LET args == pending_actions[fr[t].aid].args
              IN  fs'[safe_path(args.path).target] = args.content]_vars

\* C35's case: a.txt holds the long content an approve has written, the
\* registry holds it in full, and the audit entries of the action hold the
\* cut copy
C35_Witness ==
    \E a \in DOMAIN pending_actions :
        /\ pending_actions[a].status = "APPROVED"
        /\ pending_actions[a].args.content = LongText
        /\ fs[safe_path(InPath).target] = LongText
        /\ \E i \in DOMAIN audit_entries :
              /\ audit_entries[i].decision = "APPROVED_EXECUTED"
              /\ audit_entries[i].detail.aid = a
              /\ audit_entries[i].args.content # LongText

\* C36: _exec called for run_shell, or for any name that is not read_file,
\* write_file or delete_file, with any argument map, leaves every file as it
\* was, touches no path, raises nothing and returns the error result; the
\* model of _exec has no step that runs a command.
C36_ExecRefusesOtherTools ==
    (probe.phase = "executed" /\ probe.tool \notin FileTools)
    => /\ fs = probe.before
       /\ accessed = {}
       /\ probe.raised = "none"
       /\ probe.out.kind = "cannot execute"

\* C36's case: _exec has been called for run_shell with a command, on a
\* sandbox that holds a file
C36_Witness ==
    /\ probe.phase = "executed"
    /\ probe.tool = "run_shell"
    /\ "command" \in DOMAIN probe.args
    /\ \E p \in FsPaths : probe.before[p] # Absent

\* C37: when policy.json exists and parses but does not list a tool that
\* DEFAULT_POLICY lists, get_tool_policy returns the tool's DEFAULT_POLICY
\* entry, not the DANGEROUS / block / not approvable entry.
C37_MissingToolGetsBuiltInEntry ==
    (/\ probe.phase = "looked"
     /\ policyFile.exists
     /\ ~Raises(load_policy(policyFile))
     /\ probe.tool_name \notin DOMAIN load_policy(policyFile)
     /\ probe.tool_name \in DOMAIN DEFAULT_POLICY)
    => probe.policy = DEFAULT_POLICY[probe.tool_name]

\* C38: read_file, write_file and delete_file take the except ValueError
\* clause, which returns "BLOCKED: ..." and builds the BLOCKED / DANGEROUS
\* entry, only for a path that fails safe_path's check; a failure of another
\* kind on a contained path does not end there.
C38_BlockedOnlyForEscapingPath ==
    [][\A t \in Threads :
        (/\ fr'[t] # fr[t]
         /\ fr'[t].op \in FileTools
         /\ fr'[t].raised # "none"
         /\ fr'[t].entry # NoEntry
         /\ fr'[t].entry.decision = "BLOCKED"
         /\ fr'[t].entry.risk = "DANGEROUS"
         /\ fr'[t].result.kind = "BLOCKED")
        => ~safe_path(fr'[t].args.path).ok]_vars

\* thread t has returned from approve(a), and action a is APPROVED or ERROR
ApproveReturned(t, a) ==
    IF a \in DOMAIN pending_actions
    THEN /\ pc[t] = "done"
         /\ fr[t].op = "approve"
         /\ fr[t].aid = a
         /\ pending_actions[a].status \in {"APPROVED", "ERROR"}
    ELSE FALSE

\* C39: an approve of a PENDING action, served with no other call running,
\* comes to its return with the action APPROVED or ERROR, never PENDING, and
\* appends exactly one audit entry on the way, whether _exec succeeds, returns
\* an error text or raises.
C39_ApproveTerminates ==
    /\ \A t \in Threads : \A a \in Ids :
          (pc[t] = "approve_exec" /\ fr[t].aid = a) ~> ApproveReturned(t, a)
    /\ [][\A t \in Threads :
            fr[t].op = "approve"
            => /\ (pc[t] \in {"approve_exec", "approve_set"} /\ pc'[t] # pc[t])
                  => /\ audit_entries' = audit_entries
                     /\ pc'[t] \in {"approve_set", "audit"}
               /\ (pc[t] = "audit" /\ pc'[t] # "audit")
                  => /\ pc'[t] = "done"
                     /\ Len(audit_entries') = Len(audit_entries) + 1
                     /\ pending_actions'[fr[t].aid].status \in {"APPROVED", "ERROR"}]_vars

\* C39's case: an approve has returned after _exec raised, the action is ERROR
C39_Witness ==
    \E t \in Threads :
        /\ pc[t] = "done"
        /\ fr[t].op = "approve"
        /\ fr[t].raised # "none"
        /\ pending_actions[fr[t].aid].status = "ERROR"

==========================================================================
